---- MODULE Spec2Model ----
(***************************************************************************)
(* Board simulation engine and search tree of rusty_snake.                 *)
(*                                                                         *)
(* A Board is a record [snakes, food]; snakes is the ordered Vec of        *)
(* Battlesnake records, food the Vec of Coord.  Board::execute is one      *)
(* action; the functions it calls (move_snake, eliminate_snakes,           *)
(* reduce_snake_health, feed_snakes, eliminate_via_collisions,             *)
(* get_endstate) are operators that follow the loops of simulation.rs.     *)
(* A Rust panic is the outcome "panic": the operation is aborted and the   *)
(* board keeps whatever the loop had written before the panic.             *)
(***************************************************************************)
EXTENDS Integers, Sequences, FiniteSets, TLC

(***************************************************************************)
(* Bounds of the model.                                                    *)
(***************************************************************************)
Width == 4
Height == 3
MaxFood == 2
MaxCalls == 3

(***************************************************************************)
(* Program constants.                                                      *)
(***************************************************************************)
SNAKE_MAX_HEALTH == 100
GENERIC_ELIMINATION == "DED"
SELF_ELIMINATE == "eliminated itself"
\* Option::None of Battlesnake::eliminated_cause
None == "None"
\* u32::MAX, the value `0 - 1` wraps to when overflow checks are off; it
\* is 4294967295 in the program and stands here as the largest integer of
\* the checker, which is all a health ever compared with 0 needs
U32_MAX == 2147483647

VARIABLES
    board,      \* the Board the calls act on
    result,     \* outcome of the last execute call
    pre,        \* the board as it was when the last call started
    call,       \* arguments of the last call
    atFeed,     \* the board as feed_snakes found it in the last call
    atCollide,  \* the board as eliminate_via_collisions found it
    calls,      \* number of execute calls made so far
    rstart,     \* the board when the current round started
    rmoves,     \* the calls made since the current round started
    root,       \* Tree::root.board_state
    root0,      \* the board Tree::new was given
    target,     \* the target_snake_id of get_best_move
    stack,      \* the activations of Tree::get_score, outermost first
    phase,      \* "idle", "running", "done" or "panic"
    answer,     \* what the outermost get_score returned
    ret,        \* the last return of an activation of get_score
    executes    \* number of execute_action calls the search has made

simVars == <<board, result, pre, call, atFeed, atCollide, calls, rstart, rmoves>>
treeVars == <<root, root0, target, stack, phase, answer, ret, executes>>
vars == <<simVars, treeVars>>

(***************************************************************************)
(* Coordinates and directions.                                             *)
(***************************************************************************)
Coord(cx, cy) == [x |-> cx, y |-> cy]

\* Coord::intersect
Intersect(a, b) == a.x = b.x /\ a.y = b.y

\* utils::DIRECTIONS, each a (dy, dx) pair: up, down, left, right
DIRECTIONS == << <<1, 0>>, <<-1, 0>>, <<0, -1>>, <<0, 1>> >>

Directions == {DIRECTIONS[i] : i \in 1..Len(DIRECTIONS)}

Cells == {Coord(cx, cy) : cx \in 0..(Width - 1), cy \in 0..(Height - 1)}

(***************************************************************************)
(* EndState.                                                               *)
(***************************************************************************)
Winner(id) == [tag |-> "Winner", id |-> id]
Playing == [tag |-> "Playing", id |-> ""]
TIE == [tag |-> "TIE", id |-> ""]

(***************************************************************************)
(* Battlesnake methods.                                                    *)
(***************************************************************************)
Snake(id, body, health) ==
    [id |-> id, body |-> body, head |-> body[1], health |-> health,
     eliminated_cause |-> None]

\* Battlesnake::is_eliminated
IsEliminated(s) == s.eliminated_cause # None

\* Battlesnake::eliminate
Eliminate(s) == [s EXCEPT !.eliminated_cause = GENERIC_ELIMINATION]

\* Battlesnake::self_eliminate
SelfEliminate(s) == [s EXCEPT !.eliminated_cause = SELF_ELIMINATE]

\* feed_snake without the push of the tail cell
FeedSnake_NoGrowth(s) == [s EXCEPT !.health = SNAKE_MAX_HEALTH]

\* Battlesnake::feed_snake
FeedSnake(s) ==
    [s EXCEPT !.health = SNAKE_MAX_HEALTH,
              !.body = Append(s.body, s.body[Len(s.body)])]

\* Battlesnake::reduce_health; the subtraction wraps when overflow checks
\* are off
ReduceHealth(s) ==
    [s EXCEPT !.health = IF s.health = 0 THEN U32_MAX ELSE s.health - 1]

\* Battlesnake::head_collide_body
HeadCollideBody(head, body) ==
    \E i \in 2..Len(body) : Intersect(head, body[i])

\* Battlesnake::self_collision
SelfCollision(s) == HeadCollideBody(s.head, s.body)

\* Battlesnake::body_collision
BodyCollision(s, other) == HeadCollideBody(s.head, other.body)

\* Battlesnake::dies_head_to_head
DiesHeadToHead(s, other) ==
    Intersect(s.head, other.head) /\ Len(other.body) > Len(s.body)

\* Battlesnake::collides_with
CollidesWith(s, snakes) ==
    \E j \in 1..Len(snakes) :
        /\ ~IsEliminated(snakes[j])
        /\ DiesHeadToHead(s, snakes[j]) \/ BodyCollision(s, snakes[j])

\* Battlesnake::snake_is_out_of_bounds
SnakeIsOutOfBounds(s, height, width) ==
    LET head == s.body[1]
    IN  head.x >= width \/ head.x < 0 \/ head.y >= height \/ head.y < 0

\* Battlesnake::out_of_health
OutOfHealth(s) == s.health = 0

(***************************************************************************)
(* Board methods.                                                          *)
(***************************************************************************)
\* get_endstate with `snakes_remaining <= 1` for `snakes_remaining == 1`
GetEndstate_WinnerOfNone(b) ==
    LET living == {i \in 1..Len(b.snakes) : b.snakes[i].eliminated_cause = None}
        snakes_remaining == Cardinality(living)
        alive_snake_id == IF living = {} THEN ""
                          ELSE b.snakes[CHOOSE i \in living : \A j \in living : j <= i].id
    IN  IF snakes_remaining <= 1 THEN [tag |-> "Winner", id |-> alive_snake_id]
        ELSE [tag |-> "Playing", id |-> ""]

\* Board::get_endstate
GetEndstate(b) ==
    LET living == {i \in 1..Len(b.snakes) : b.snakes[i].eliminated_cause = None}
        snakes_remaining == Cardinality(living)
        alive_snake_id == b.snakes[CHOOSE i \in living : \A j \in living : j <= i].id
    IN  IF snakes_remaining = 1 THEN Winner(alive_snake_id)
        ELSE IF snakes_remaining = 0 THEN TIE
        ELSE Playing

\* Board::is_terminal
IsTerminal(b) == GetEndstate(b).tag # "Playing"

RotateLeft(seq, k) == SubSeq(seq, k + 1, Len(seq)) \o SubSeq(seq, 1, k)

\* the move without `snake.body.rotate_left(last_index)`
MovedSnake_NoRotate(s, dir) ==
    LET new_head == Coord(s.body[1].x + dir[2], s.body[1].y + dir[1])
    IN  [s EXCEPT !.body = [s.body EXCEPT ![1] = new_head],
                  !.head = new_head]

\* the body of `if snake_id == snake.id` in Board::move_snake
MovedSnake(s, dir) ==
    LET last_index == Len(s.body) - 1
        new_head == Coord(s.body[1].x + dir[2], s.body[1].y + dir[1])
    IN  [s EXCEPT !.body = [RotateLeft(s.body, last_index) EXCEPT ![1] = new_head],
                  !.head = new_head]

\* the loop of Board::move_snake from index i on; ok = FALSE is a panic
RECURSIVE MoveLoop(_, _, _, _)
MoveLoop(snakes, i, snake_id, dir) ==
    IF i > Len(snakes) THEN [ok |-> TRUE, snakes |-> snakes]
    ELSE IF Len(snakes[i].body) = 0 THEN [ok |-> FALSE, snakes |-> snakes]
    ELSE IF snakes[i].eliminated_cause # None THEN [ok |-> FALSE, snakes |-> snakes]
    ELSE IF snake_id = snakes[i].id
         THEN MoveLoop([snakes EXCEPT ![i] = MovedSnake(snakes[i], dir)],
                       i + 1, snake_id, dir)
    ELSE MoveLoop(snakes, i + 1, snake_id, dir)

\* Board::move_snake
MoveSnake(b, snake_id, dir) ==
    LET r == MoveLoop(b.snakes, 1, snake_id, dir)
    IN  [ok |-> r.ok, board |-> [b EXCEPT !.snakes = r.snakes]]

\* the loop body of eliminate_snakes without the self_collision check
EliminateOne_NoSelfCollision(s) ==
    IF IsEliminated(s) THEN s
    ELSE IF OutOfHealth(s) THEN Eliminate(s)
    ELSE IF SnakeIsOutOfBounds(s, Height, Width) THEN Eliminate(s)
    ELSE s

\* one iteration of the loop of Board::eliminate_snakes
EliminateOne(s) ==
    IF IsEliminated(s) THEN s
    ELSE IF OutOfHealth(s) THEN Eliminate(s)
    ELSE IF SnakeIsOutOfBounds(s, Height, Width) THEN Eliminate(s)
    ELSE IF SelfCollision(s) THEN SelfEliminate(s)
    ELSE s

\* the loop of Board::eliminate_snakes from index i on; ok = FALSE is the
\* "Zero length snake" panic
RECURSIVE EliminateLoop(_, _)
EliminateLoop(snakes, i) ==
    IF i > Len(snakes) THEN [ok |-> TRUE, snakes |-> snakes]
    ELSE IF ~IsEliminated(snakes[i]) /\ Len(snakes[i].body) <= 0
         THEN [ok |-> FALSE, snakes |-> snakes]
    ELSE EliminateLoop([snakes EXCEPT ![i] = EliminateOne(snakes[i])], i + 1)

\* Board::eliminate_snakes
EliminateSnakes(b) ==
    LET r == EliminateLoop(b.snakes, 1)
    IN  [ok |-> r.ok, board |-> [b EXCEPT !.snakes = r.snakes]]

\* Board::reduce_snake_health
ReduceSnakeHealth(b) ==
    [b EXCEPT !.snakes = [i \in 1..Len(b.snakes) |-> ReduceHealth(b.snakes[i])]]

\* `self.health -= 1` overflows for some snake of the board
HealthUnderflows(b) == \E i \in 1..Len(b.snakes) : b.snakes[i].health = 0

\* the inner loop of Board::feed_snakes for one food, from snake index i on
RECURSIVE FeedLoop(_, _, _, _)
FeedLoop(snakes, i, food, eaten) ==
    IF i > Len(snakes) THEN [ok |-> TRUE, snakes |-> snakes, eaten |-> eaten]
    ELSE IF snakes[i].eliminated_cause = None /\ Len(snakes[i].body) = 0
         THEN FeedLoop(snakes, i + 1, food, eaten)
    ELSE IF Len(snakes[i].body) = 0
         THEN [ok |-> FALSE, snakes |-> snakes, eaten |-> eaten]
    ELSE IF Intersect(snakes[i].body[1], food)
         THEN FeedLoop([snakes EXCEPT ![i] = FeedSnake(snakes[i])], i + 1, food, TRUE)
    ELSE FeedLoop(snakes, i + 1, food, eaten)

\* the outer loop of Board::feed_snakes from food index k on
RECURSIVE FoodLoop(_, _, _, _)
FoodLoop(snakes, food, k, new_food) ==
    IF k > Len(food) THEN [ok |-> TRUE, snakes |-> snakes, food |-> new_food]
    ELSE LET r == FeedLoop(snakes, 1, food[k], FALSE)
         IN  IF ~r.ok THEN [ok |-> FALSE, snakes |-> r.snakes, food |-> food]
             ELSE FoodLoop(r.snakes, food, k + 1,
                           IF r.eaten THEN new_food ELSE Append(new_food, food[k]))

\* Board::feed_snakes
FeedSnakes(b) ==
    LET r == FoodLoop(b.snakes, b.food, 1, <<>>)
    IN  [ok |-> r.ok, board |-> [snakes |-> r.snakes, food |-> r.food]]

\* eliminate_via_collisions deciding and eliminating in one loop, each
\* agent judged against the agents as the loop has left them so far
RECURSIVE CollideLoop_Eager(_, _)
CollideLoop_Eager(snakes, i) ==
    IF i > Len(snakes) THEN snakes
    ELSE CollideLoop_Eager(
            [snakes EXCEPT ![i] = IF CollidesWith(snakes[i], snakes)
                                  THEN Eliminate(snakes[i]) ELSE snakes[i]],
            i + 1)

EliminateViaCollisions_Eager(b) ==
    [b EXCEPT !.snakes = CollideLoop_Eager(b.snakes, 1)]

\* Board::eliminate_via_collisions
EliminateViaCollisions(b) ==
    LET is_eliminated == [i \in 1..Len(b.snakes) |-> CollidesWith(b.snakes[i], b.snakes)]
    IN  [b EXCEPT !.snakes = [i \in 1..Len(b.snakes) |->
            IF is_eliminated[i] THEN Eliminate(b.snakes[i]) ELSE b.snakes[i]]]

\* outcomes of a call: a panic in one of the steps, or a returned EndState;
\* atFeed and atCollide are the boards feed_snakes and
\* eliminate_via_collisions were entered with (b0 when not reached)
Panic(stage, b, mid, col) ==
    [kind |-> "panic", stage |-> stage, board |-> b, end |-> Playing,
     atFeed |-> mid, atCollide |-> col]
Returned(b, e, mid, col) ==
    [kind |-> "returned", stage |-> "", board |-> b, end |-> e,
     atFeed |-> mid, atCollide |-> col]

\* lines 104-109 with the EndState taken before eliminate_via_collisions
ExecuteLast_StaleEndstate(b, checked) ==
    IF checked /\ HealthUnderflows(b) THEN Panic("health", b, b, b)
    ELSE LET reduced == ReduceSnakeHealth(b)
             fed == FeedSnakes(reduced)
             elim == EliminateSnakes(fed.board)
             coll == EliminateViaCollisions(elim.board)
         IN  IF ~fed.ok THEN Panic("feed", fed.board, reduced, reduced)
             ELSE IF ~elim.ok THEN Panic("eliminate", elim.board, reduced, reduced)
             ELSE Returned(coll, GetEndstate(elim.board), reduced, elim.board)

\* lines 104-109 of Board::execute; checked says whether the build panics
\* on integer overflow
ExecuteLast(b, checked) ==
    IF checked /\ HealthUnderflows(b) THEN Panic("health", b, b, b)
    ELSE LET reduced == ReduceSnakeHealth(b)
             fed == FeedSnakes(reduced)
             elim == EliminateSnakes(fed.board)
             coll == EliminateViaCollisions(elim.board)
         IN  IF ~fed.ok THEN Panic("feed", fed.board, reduced, reduced)
             ELSE IF ~elim.ok THEN Panic("eliminate", elim.board, reduced, reduced)
             ELSE Returned(coll, GetEndstate(coll), reduced, elim.board)

\* execute without the return on a board that is not Playing
Execute_NoEarlyReturn(b, snake_id, dir, last_snake, checked) ==
    LET moved == MoveSnake(b, snake_id, dir)
        elim == EliminateSnakes(moved.board)
    IN  IF ~moved.ok THEN Panic("move", moved.board, b, b)
        ELSE IF ~elim.ok THEN Panic("eliminate", elim.board, b, b)
        ELSE IF ~last_snake THEN Returned(elim.board, Playing, b, b)
        ELSE ExecuteLast(elim.board, checked)

\* execute without `if !last_snake { return }`: every sub-step resolves
Execute_NoDeferral(b, snake_id, dir, last_snake, checked) ==
    LET end_state == GetEndstate(b)
        moved == MoveSnake(b, snake_id, dir)
        elim == EliminateSnakes(moved.board)
    IN  IF end_state.tag # "Playing" THEN Returned(b, end_state, b, b)
        ELSE IF ~moved.ok THEN Panic("move", moved.board, b, b)
        ELSE IF ~elim.ok THEN Panic("eliminate", elim.board, b, b)
        ELSE ExecuteLast(elim.board, checked)

\* Board::execute
Execute(b, snake_id, dir, last_snake, checked) ==
    LET end_state == GetEndstate(b)
        moved == MoveSnake(b, snake_id, dir)
        elim == EliminateSnakes(moved.board)
    IN  IF end_state.tag # "Playing" THEN Returned(b, end_state, b, b)
        ELSE IF ~moved.ok THEN Panic("move", moved.board, b, b)
        ELSE IF ~elim.ok THEN Panic("eliminate", elim.board, b, b)
        ELSE IF ~last_snake THEN Returned(elim.board, Playing, b, b)
        ELSE ExecuteLast(elim.board, checked)

(***************************************************************************)
(* The boards the calls start from.                                        *)
(***************************************************************************)
SnakeIds == <<"a", "b", "c">>
\* an id that names no snake of any board
NoSnake == "z"

StartBody(id) ==
    CASE id = "a" -> <<Coord(1, 1), Coord(0, 1), Coord(0, 0)>>
      [] id = "b" -> <<Coord(3, 1), Coord(3, 0)>>
      [] id = "c" -> <<Coord(2, 2), Coord(1, 2)>>

StartHealth == {1, SNAKE_MAX_HEALTH}

Range(seq) == {seq[i] : i \in 1..Len(seq)}

\* the cells food is laid on, in the order of the food Vec
FoodCells == <<Coord(2, 1), Coord(2, 0), Coord(3, 2), Coord(1, 0)>>

Min(m, n) == IF m < n THEN m ELSE n

StartFoods == {SubSeq(FoodCells, 1, k) : k \in 0..Min(MaxFood, Len(FoodCells))}

StartBoards ==
    {[snakes |-> [i \in 1..n |-> Snake(SnakeIds[i], StartBody(SnakeIds[i]), h)],
      food |-> f] :
        n \in 2..Len(SnakeIds), h \in StartHealth, f \in StartFoods}

\* the answer of a search that has not returned
NoAnswer == [score |-> <<>>, dir |-> <<0, 0>>]

\* no activation of get_score has returned yet
NoReturn == [how |-> "none", depth |-> 0, board |-> <<>>, current_snake |-> "",
             score |-> <<>>, dir |-> <<0, 0>>, children |-> <<>>]

Init ==
    /\ board \in StartBoards
    /\ result = [kind |-> "init", stage |-> "", end |-> GetEndstate(board)]
    /\ pre = board
    /\ call = [id |-> NoSnake, dir |-> DIRECTIONS[1], last |-> FALSE]
    /\ atFeed = board
    /\ atCollide = board
    /\ calls = 0
    /\ rstart = board
    /\ rmoves = <<>>
    /\ root = board
    /\ root0 = board
    /\ target = NoSnake
    /\ stack = <<>>
    /\ phase = "idle"
    /\ answer = NoAnswer
    /\ ret = NoReturn
    /\ executes = 0

Ids(b) == {b.snakes[i].id : i \in 1..Len(b.snakes)}

\* the build panics on integer overflow (debug) or wraps (release); the two
\* differ only on a board where a health is 0
Builds(b) == IF HealthUnderflows(b) THEN BOOLEAN ELSE {TRUE}

RoundOver == rmoves # <<>> /\ rmoves[Len(rmoves)].last

\* a caller invokes board.execute(snake_id, dir, last_snake)
ExecuteCall ==
    /\ calls < MaxCalls
    /\ result.kind # "panic"
    /\ \E snake_id \in Ids(board) \cup {NoSnake}, dir \in Directions,
          last_snake \in BOOLEAN, checked \in Builds(board) :
          \E r \in {Execute(board, snake_id, dir, last_snake, checked)} :
          LET c == [id |-> snake_id, dir |-> dir, last |-> last_snake]
          IN  /\ board' = r.board
              /\ result' = [kind |-> r.kind, stage |-> r.stage, end |-> r.end]
              /\ pre' = board
              /\ call' = c
              /\ atFeed' = r.atFeed
              /\ atCollide' = r.atCollide
              /\ calls' = calls + 1
              /\ rstart' = IF rmoves = <<>> \/ RoundOver THEN board ELSE rstart
              /\ rmoves' = IF rmoves = <<>> \/ RoundOver THEN <<c>> ELSE Append(rmoves, c)
              /\ UNCHANGED treeVars

Next == ExecuteCall

Spec == Init /\ [][Next]_vars

\* boards of two agents on which the body of the first has one, two or
\* three segments
MoveBoards ==
    {[snakes |-> <<Snake("a", SubSeq(StartBody("a"), 1, n), h),
                   Snake("b", StartBody("b"), h)>>,
      food |-> f] :
        n \in 1..Len(StartBody("a")), h \in StartHealth, f \in StartFoods}

InitMove ==
    /\ board \in MoveBoards
    /\ result = [kind |-> "init", stage |-> "", end |-> GetEndstate(board)]
    /\ pre = board
    /\ call = [id |-> NoSnake, dir |-> DIRECTIONS[1], last |-> FALSE]
    /\ atFeed = board
    /\ atCollide = board
    /\ calls = 0
    /\ rstart = board
    /\ rmoves = <<>>
    /\ root = board
    /\ root0 = board
    /\ target = NoSnake
    /\ stack = <<>>
    /\ phase = "idle"
    /\ answer = NoAnswer
    /\ ret = NoReturn
    /\ executes = 0

SpecMove == InitMove /\ [][Next]_vars

(***************************************************************************)
(* The heuristic scorer.  A utility is MAX_SCORE * n / d, kept as the      *)
(* reduced fraction n / d; 0.0 / 0.0 is the NaN of f32, which compares     *)
(* false with everything.                                                  *)
(***************************************************************************)
MAX_SCORE == 200000
FILL_V == 1
LIFE_V == 1
LENGTH_V == 100

RECURSIVE Gcd(_, _)
Gcd(m, n) == IF n = 0 THEN m ELSE Gcd(n, m % n)

NaN == [nan |-> TRUE, n |-> 0, d |-> 1]
Frac(x, t) == [nan |-> FALSE, n |-> x \div Gcd(x, t), d |-> t \div Gcd(x, t)]

\* `a > b` on f32
Gt(a, b) == ~a.nan /\ ~b.nan /\ a.n * b.d > b.n * a.d

\* `NodeState::MAX_SCORE - a`
MaxMinus(a) == IF a.nan THEN NaN ELSE Frac(a.d - a.n, a.d)

Neighbours(c) == {Coord(c.x + DIRECTIONS[k][2], c.y + DIRECTIONS[k][1]) : k \in 1..Len(DIRECTIONS)}

RECURSIVE Fill(_, _, _)
Fill(seen, from, free) ==
    LET next == (UNION {Neighbours(c) : c \in from} \cap free) \ seen
    IN  IF next = {} THEN seen ELSE Fill(seen \cup next, next, free)

\* floodfill::floodfill: the number of cells of the grid, under no snake
\* body, that a walk from the snake's head reaches
Floodfill(b, snake_id) ==
    LET i == CHOOSE k \in 1..Len(b.snakes) : b.snakes[k].id = snake_id
        free == Cells \ UNION {Range(b.snakes[k].body) : k \in 1..Len(b.snakes)}
    IN  Cardinality(Fill({}, {b.snakes[i].head}, free))

\* NodeState::calculate_raw_score_per_snake; the Winner arm of its match
\* (f32::NEG_INFINITY) is never reached, the if-let before it having
\* returned for every winner
CalculateRawScorePerSnake(b, i, end_state) ==
    IF end_state.tag = "Winner"
    THEN (IF end_state.id = b.snakes[i].id THEN MAX_SCORE ELSE 0)
    ELSE IF end_state.tag = "TIE" THEN 0
    ELSE b.snakes[i].health * LIFE_V
            + Len(b.snakes[i].body) * LENGTH_V
            + Floodfill(b, b.snakes[i].id) * FILL_V

RECURSIVE Sum(_, _)
Sum(seq, k) == IF k = 0 THEN 0 ELSE seq[k] + Sum(seq, k - 1)

\* NodeState::generate_score_array
GenerateScoreArray(b) ==
    LET end_state == GetEndstate(b)
        scores == [i \in 1..Len(b.snakes) |-> CalculateRawScorePerSnake(b, i, end_state)]
        total_score == Sum(scores, Len(scores))
    IN  [i \in 1..Len(b.snakes) |->
            IF total_score = 0 THEN NaN ELSE Frac(scores[i], total_score)]

(***************************************************************************)
(* The search tree.  An activation of get_score is a frame                 *)
(*   [depth, board_state, alphas, current_snake, pc, dir, new_alphas,      *)
(*    max_score, best_dir, entry, children]                                *)
(* where dir is the index in DIRECTIONS of the direction the loop is at,   *)
(* pc is "entry" until the check of line 143 has been made, entry          *)
(* remembers the board the activation was entered with and children the    *)
(* (direction, new_score) pairs the recursive calls have returned to it.   *)
(* The outermost activation reads its board through &self.root.            *)
(***************************************************************************)
MAX_DEPTH == 10

\* Tree::new: snake_vec, and snake_map as the index of an id (0 for none)
SnakeVec == [i \in 1..Len(root0.snakes) |-> root0.snakes[i].id]
SnakeMap(id) == IF \E i \in 1..Len(SnakeVec) : SnakeVec[i] = id
                THEN CHOOSE i \in 1..Len(SnakeVec) : SnakeVec[i] = id
                ELSE 0

\* Tree::get_next_snake
GetNextSnake(current_snake) == SnakeVec[(SnakeMap(current_snake) % Len(SnakeVec)) + 1]

\* Tree::is_last_nake
IsLastSnake(current_snake) == SnakeMap(current_snake) = Len(SnakeVec)

\* Board::clone
Clone(b) == [snakes |-> [i \in 1..Len(b.snakes) |-> b.snakes[i]],
             food |-> [k \in 1..Len(b.food) |-> b.food[k]]]

\* lines 167-172 with execute_action run on the node's board, not on a clone
ExploreDirection_InPlace(board_state, current_snake, dir, checked) ==
    LET r == Execute(board_state, current_snake, dir,
                     IsLastSnake(current_snake), checked)
    IN  [kind |-> r.kind, board_state |-> r.board, board_copy |-> r.board]

\* lines 167-172 of Tree::get_score: what they leave in *board_state and
\* in board_copy
ExploreDirection(board_state, current_snake, dir, checked) ==
    LET r == Execute(Clone(board_state), current_snake, dir,
                     IsLastSnake(current_snake), checked)
    IN  [kind |-> r.kind, board_state |-> board_state, board_copy |-> r.board]

NodeBoard(k) == IF k = 1 THEN root ELSE stack[k].board_state

Frame(depth, b, alphas, current_snake) ==
    [depth |-> depth, board_state |-> b, alphas |-> alphas,
     current_snake |-> current_snake, pc |-> "entry", dir |-> 1,
     new_alphas |-> alphas, max_score |-> <<>>, best_dir |-> <<1, 0>>,
     entry |-> b, children |-> <<>>]

\* lines 184-198 of Tree::get_score, and the step of the loop
Absorb(f, new_score) ==
    LET i == SnakeMap(f.current_snake)
        kids == Append(f.children, [dir |-> f.dir, score |-> new_score])
    IN  IF Len(f.max_score) = 0 \/ Gt(new_score[i], f.max_score[i])
        THEN [f EXCEPT !.best_dir = DIRECTIONS[f.dir],
                       !.max_score = new_score,
                       !.new_alphas = [k \in 1..Len(f.new_alphas) |->
                            IF k = i THEN new_score[i] ELSE MaxMinus(new_score[i])],
                       !.dir = f.dir + 1,
                       !.children = kids]
        ELSE [f EXCEPT !.dir = f.dir + 1, !.children = kids]

\* lines 154-156 of Tree::get_score
CutsOff(f) ==
    /\ Len(f.max_score) > 0
    /\ Gt(f.max_score[SnakeMap(f.current_snake)], f.alphas[SnakeMap(f.current_snake)])

\* line 143 without `depth == Tree::MAX_DEPTH`
AtLeaf_NoDepthBound(f, b) == IsTerminal(b)

\* line 143 of Tree::get_score: the activation f, on board b, does not go
\* into its loop
AtLeaf(f, b) == f.depth = MAX_DEPTH \/ IsTerminal(b)

\* the innermost activation returns (score, dir) to its caller; how is the
\* return statement it leaves through
ReturnValue(score, dir, how) ==
    /\ ret' = [how |-> how, depth |-> stack[Len(stack)].depth,
               board |-> NodeBoard(Len(stack)),
               current_snake |-> stack[Len(stack)].current_snake,
               score |-> score, dir |-> dir,
               children |-> stack[Len(stack)].children]
    /\ IF Len(stack) = 1
       THEN /\ stack' = <<>>
            /\ phase' = "done"
            /\ answer' = [score |-> score, dir |-> dir]
            /\ UNCHANGED <<root, root0, target, executes>>
       ELSE /\ stack' = [SubSeq(stack, 1, Len(stack) - 1)
                           EXCEPT ![Len(stack) - 1] = Absorb(stack[Len(stack) - 1], score)]
            /\ UNCHANGED <<root, root0, target, phase, answer, executes>>

\* get_best_move with the alphas of the root at 0.0
GetBestMove_ZeroAlphas ==
    /\ phase = "idle"
    /\ \E target_snake_id \in Ids(root) \cup {NoSnake} :
          /\ target' = target_snake_id
          /\ stack' = <<Frame(0, root,
                              [i \in 1..Len(root.snakes) |-> Frac(0, MAX_SCORE)],
                              target_snake_id)>>
          /\ phase' = "running"
    /\ UNCHANGED <<root, root0, answer, ret, executes, simVars>>

\* Tree::get_best_move up to the call of get_score
GetBestMove ==
    /\ phase = "idle"
    /\ \E target_snake_id \in Ids(root) \cup {NoSnake} :
          /\ target' = target_snake_id
          /\ stack' = <<Frame(0, root,
                              [i \in 1..Len(root.snakes) |-> Frac(MAX_SCORE, MAX_SCORE)],
                              target_snake_id)>>
          /\ phase' = "running"
    /\ UNCHANGED <<root, root0, answer, ret, executes, simVars>>

\* line 143-145: the depth bound or a board that is not Playing
ReturnLeaf ==
    /\ phase = "running"
    /\ LET f == stack[Len(stack)]
       IN  /\ f.pc = "entry"
           /\ AtLeaf(f, NodeBoard(Len(stack)))
           /\ ReturnValue(GenerateScoreArray(NodeBoard(Len(stack))), f.best_dir, "leaf")
    /\ UNCHANGED simVars

\* one turn of the loop down to the recursive call: a panic of the map
\* lookup or of execute ends the search
Expand ==
    /\ phase = "running"
    /\ LET n == Len(stack)
           f == stack[n]
       IN  /\ f.dir <= Len(DIRECTIONS)
           /\ ~CutsOff(f)
           /\ f.pc = "entry" => ~AtLeaf(f, NodeBoard(n))
           /\ \E checked \in Builds(NodeBoard(n)) :
              \E r \in {IF SnakeMap(f.current_snake) = 0
                        THEN [kind |-> "panic", board_state |-> NodeBoard(n),
                              board_copy |-> NodeBoard(n)]
                        ELSE ExploreDirection(NodeBoard(n), f.current_snake,
                                              DIRECTIONS[f.dir], checked)} :
                 /\ root' = IF n = 1 THEN r.board_state ELSE root
                 /\ executes' = IF SnakeMap(f.current_snake) = 0
                                 THEN executes ELSE executes + 1
                 /\ IF r.kind = "panic"
                    THEN /\ phase' = "panic"
                         /\ stack' = [stack EXCEPT ![n].pc = "loop",
                                                   ![n].board_state = r.board_state]
                    ELSE /\ phase' = phase
                         /\ stack' = Append([stack EXCEPT ![n].pc = "loop",
                                                          ![n].board_state = r.board_state],
                                            Frame(f.depth + 1, Clone(r.board_copy),
                                                  f.new_alphas,
                                                  GetNextSnake(f.current_snake)))
    /\ UNCHANGED <<root0, target, answer, ret, simVars>>

\* lines 154-160: the break of the alpha cutoff
ReturnCutoff ==
    /\ phase = "running"
    /\ LET f == stack[Len(stack)]
       IN  /\ f.pc = "loop"
           /\ f.dir <= Len(DIRECTIONS)
           /\ CutsOff(f)
           /\ ReturnValue(f.max_score, f.best_dir, "cutoff")
    /\ UNCHANGED simVars

\* line 200: the loop has gone through the four directions
ReturnLoopEnd ==
    /\ phase = "running"
    /\ LET f == stack[Len(stack)]
       IN  /\ f.dir > Len(DIRECTIONS)
           /\ ReturnValue(f.max_score, f.best_dir, "loop")
    /\ UNCHANGED simVars

\* boards that are resolved before the search starts: the last agent of a
\* start board without food is eliminated
ResolvedRoots ==
    {[b EXCEPT !.snakes[Len(b.snakes)] = Eliminate(@)] :
        b \in {r \in StartBoards : r.food = <<>> /\ Len(r.snakes) = 2}}

\* the boards a search is started from: the start boards with no food and
\* those with all the food, and the resolved boards
SearchRoots ==
    {b \in StartBoards : Len(b.food) \in {0, Min(MaxFood, Len(FoodCells))}}
        \cup ResolvedRoots

InitSearch ==
    /\ root0 \in SearchRoots
    /\ root = root0
    /\ target = NoSnake
    /\ stack = <<>>
    /\ phase = "idle"
    /\ answer = NoAnswer
    /\ ret = NoReturn
    /\ executes = 0
    /\ board = root0
    /\ result = [kind |-> "init", stage |-> "", end |-> GetEndstate(root0)]
    /\ pre = root0
    /\ call = [id |-> NoSnake, dir |-> DIRECTIONS[1], last |-> FALSE]
    /\ atFeed = root0
    /\ atCollide = root0
    /\ calls = 0
    /\ rstart = root0
    /\ rmoves = <<>>

NextSearch == GetBestMove \/ ReturnLeaf \/ Expand \/ ReturnCutoff \/ ReturnLoopEnd

SpecSearch == InitSearch /\ [][NextSearch]_vars

(***************************************************************************)
(* Vocabulary of the properties.                                           *)
(***************************************************************************)
Living(b) == {i \in 1..Len(b.snakes) : b.snakes[i].eliminated_cause = None}

InGrid(c) == c.x >= 0 /\ c.x < Width /\ c.y >= 0 /\ c.y < Height

\* the last call started on a Playing board and ran to its return
Completed == calls > 0 /\ GetEndstate(pre).tag = "Playing" /\ result.kind = "returned"

\* the last call resolved a round
Resolved == Completed /\ call.last

\* index of the snake the last call named, 0 when it names none
Named == IF \E i \in 1..Len(pre.snakes) : pre.snakes[i].id = call.id
         THEN CHOOSE i \in 1..Len(pre.snakes) : pre.snakes[i].id = call.id
         ELSE 0

\* the cell the last call sent the named snake's head to
Target == Coord(pre.snakes[Named].body[1].x + call.dir[2],
                pre.snakes[Named].body[1].y + call.dir[1])

(***************************************************************************)
(* C1: get_endstate is Winner(id) exactly when one agent is living (id     *)
(* that agent), TIE exactly when none is, Playing exactly when two or more *)
(* are; is_terminal is true exactly when the result is not Playing.        *)
(***************************************************************************)
C1_EndstateCountsLiving ==
    LET e == GetEndstate(board)
        n == Cardinality(Living(board))
    IN  /\ e.tag \in {"Winner", "TIE", "Playing"}
        /\ e.tag = "Winner" <=> n = 1
        /\ e.tag = "Winner" => \E i \in Living(board) : board.snakes[i].id = e.id
        /\ e.tag = "TIE" <=> n = 0
        /\ e.tag = "Playing" <=> n >= 2
        /\ IsTerminal(board) <=> n < 2
        /\ calls > 0 /\ result.kind = "returned" /\ (call.last \/ GetEndstate(pre).tag # "Playing")
            => result.end = e

\* C1: a call has left one agent of three living
C1_Witness ==
    /\ Completed
    /\ Len(board.snakes) = 3
    /\ Cardinality(Living(board)) = 1
    /\ GetEndstate(board) = Winner(board.snakes[CHOOSE i \in Living(board) : TRUE].id)

\* snakes i and j were living when collisions were resolved, head on head
HeadsMeet(i, j) ==
    /\ i # j
    /\ i \in Living(atCollide) /\ j \in Living(atCollide)
    /\ Intersect(atCollide.snakes[i].head, atCollide.snakes[j].head)

\* the head of snake i lay on no body and on no third head
OnlyEncounter(i, j) ==
    \A k \in Living(atCollide) :
        /\ ~BodyCollision(atCollide.snakes[i], atCollide.snakes[k])
        /\ k \notin {i, j} => ~Intersect(atCollide.snakes[i].head, atCollide.snakes[k].head)

(***************************************************************************)
(* C2: after an end-of-round execute in which two living agents' heads     *)
(* share a cell, the shorter of the two is eliminated and the strictly     *)
(* longer one is not eliminated by that encounter; with equal lengths both *)
(* are eliminated.                                                         *)
(***************************************************************************)
C2_HeadToHeadRule ==
    Resolved =>
        \A i, j \in 1..Len(board.snakes) :
            HeadsMeet(i, j) =>
                LET li == Len(atCollide.snakes[i].body)
                    lj == Len(atCollide.snakes[j].body)
                IN  /\ li < lj => IsEliminated(board.snakes[i])
                    /\ li > lj /\ OnlyEncounter(i, j) => ~IsEliminated(board.snakes[i])
                    /\ li = lj => IsEliminated(board.snakes[i]) /\ IsEliminated(board.snakes[j])

(***************************************************************************)
(* C3: in a round resolved on a Playing board, each living agent whose     *)
(* head is on a food cell when feeding is resolved ends the call with      *)
(* health 100 and its body one longer than before the call, the tail cell  *)
(* duplicated; that food cell has left the food, and every food cell under *)
(* no agent's head is still in the food.                                   *)
(***************************************************************************)
C3_FeedingRule ==
    Resolved =>
        /\ \A i \in Living(atFeed) :
              atFeed.snakes[i].body[1] \in Range(atFeed.food) =>
                  /\ board.snakes[i].health = SNAKE_MAX_HEALTH
                  /\ Len(board.snakes[i].body) = Len(pre.snakes[i].body) + 1
                  /\ board.snakes[i].body =
                        Append(atFeed.snakes[i].body,
                               atFeed.snakes[i].body[Len(atFeed.snakes[i].body)])
                  /\ atFeed.snakes[i].body[1] \notin Range(board.food)
        /\ \A f \in Range(atFeed.food) :
              (\A i \in 1..Len(atFeed.snakes) : ~Intersect(atFeed.snakes[i].body[1], f))
                  => f \in Range(board.food)
        /\ Range(board.food) \subseteq Range(atFeed.food)

\* C3: a living agent has eaten one food while another food stayed
C3_Witness ==
    /\ Resolved
    /\ \E i \in Living(atFeed) :
          /\ atFeed.snakes[i].body[1] \in Range(atFeed.food)
          /\ Len(board.snakes[i].body) = Len(pre.snakes[i].body) + 1
    /\ board.food # <<>>
    /\ Len(board.food) < Len(atFeed.food)

NoInvalidLiving ==
    \A i \in Living(board) :
        LET s == board.snakes[i]
        IN  /\ s.health # 0
            /\ InGrid(s.head) /\ InGrid(s.body[1])
            /\ \A k \in 2..Len(s.body) : s.body[k] # s.head

MovedOffBoard == Named # 0 /\ ~InGrid(Target)

MovedOntoNeck ==
    /\ Named # 0
    /\ Len(pre.snakes[Named].body) >= 2
    /\ Target = pre.snakes[Named].body[2]

MovedIntoFreeCell ==
    /\ Named # 0
    /\ InGrid(Target)
    /\ \A i \in 1..Len(pre.snakes) : Target \notin Range(pre.snakes[i].body)

C4_Common ==
    /\ NoInvalidLiving
    /\ MovedOffBoard => IsEliminated(board.snakes[Named])
    /\ MovedIntoFreeCell /\ ~call.last => ~IsEliminated(board.snakes[Named])

(***************************************************************************)
(* C4: after every execute call that starts on a Playing board, last of    *)
(* the round or not, no agent without an elimination cause has health 0, a *)
(* head off the grid or a head on one of its own segments of index >= 1;   *)
(* an agent that moves off the board is eliminated in that sub-step, one   *)
(* that moves into a free cell of the grid in a non-final sub-step stays   *)
(* alive, and (the amended part) an agent whose body has three or more     *)
(* segments and that moves onto its neck is eliminated in that sub-step.   *)
(***************************************************************************)
C4_EliminationInvariant ==
    Completed =>
        /\ C4_Common
        /\ MovedOntoNeck /\ Len(pre.snakes[Named].body) >= 3
              => IsEliminated(board.snakes[Named])

\* C4 as it was made: a move onto the neck eliminates whatever the length
\* of the body
C4_AnyNeckMoveEliminates ==
    Completed =>
        /\ C4_Common
        /\ MovedOntoNeck => IsEliminated(board.snakes[Named])

\* C4: a sub-step that is not the last of its round has sent a snake of
\* three segments onto its neck and eliminated it
C4_Witness ==
    /\ Completed /\ ~call.last
    /\ MovedOntoNeck /\ Len(pre.snakes[Named].body) >= 3
    /\ board.snakes[Named].eliminated_cause = SELF_ELIMINATE

(***************************************************************************)
(* C5: executing a move on a clone of a board leaves the original's        *)
(* agents, food and EndState as they were; in get_best_move every          *)
(* direction explored at a node starts from the same unmodified board of   *)
(* that node, no branch sees what a sibling branch did, and the root board *)
(* is the same before and after the search.                                *)
(***************************************************************************)
C5_BranchesAreIsolated ==
    /\ root = root0
    /\ \A k \in 1..Len(stack) :
          /\ NodeBoard(k) = stack[k].entry
          /\ GetEndstate(NodeBoard(k)) = GetEndstate(stack[k].entry)
    /\ \A k \in 2..Len(stack) :
          stack[k].entry =
              Execute(stack[k - 1].entry, stack[k - 1].current_snake,
                      DIRECTIONS[stack[k - 1].dir],
                      IsLastSnake(stack[k - 1].current_snake), TRUE).board

\* C5: the search is in the last direction of a node below the root, on a
\* board that differs from the node's
C5_Witness ==
    /\ phase = "running"
    /\ Len(stack) >= 3
    /\ stack[2].dir = Len(DIRECTIONS)
    /\ stack[3].board_state # stack[2].board_state
    /\ stack[2].board_state # root
    /\ root = root0

(***************************************************************************)
(* C6: on a board whose EndState is Winner(w) or TIE every execute call    *)
(* returns that EndState and leaves every agent and the food as they were, *)
(* so a resolved board keeps its EndState.                                 *)
(***************************************************************************)
C6_ResolvedBoardIsFrozen ==
    calls > 0 /\ GetEndstate(pre).tag # "Playing" =>
        /\ result.kind = "returned"
        /\ result.end = GetEndstate(pre)
        /\ board = pre
        /\ GetEndstate(board) = GetEndstate(pre)

\* C6: a call naming the winner of a resolved board, as last of a round
C6_Witness ==
    /\ calls > 0
    /\ GetEndstate(pre).tag = "Winner"
    /\ call.id = GetEndstate(pre).id
    /\ call.last
    /\ result.end = GetEndstate(pre)

(***************************************************************************)
(* C7: once an agent has an elimination cause it is never moved and never  *)
(* fed again: its body and head stay, its health is not reset to 100 and   *)
(* the food under its head is not consumed, also in the rest of the call   *)
(* that eliminated it.                                                     *)
(***************************************************************************)
C7_EliminatedNeverMovedOrFed ==
    calls > 0 =>
        /\ \A i \in 1..Len(pre.snakes) :
              IsEliminated(pre.snakes[i]) =>
                  /\ board.snakes[i].body = pre.snakes[i].body
                  /\ board.snakes[i].head = pre.snakes[i].head
        /\ Resolved =>
              \A i \in 1..Len(atFeed.snakes) :
                  IsEliminated(atFeed.snakes[i]) =>
                      /\ board.snakes[i].body = atFeed.snakes[i].body
                      /\ board.snakes[i].health # SNAKE_MAX_HEALTH
                            \/ atFeed.snakes[i].health = SNAKE_MAX_HEALTH
                      /\ atFeed.snakes[i].body[1] \in Range(atFeed.food)
                            => atFeed.snakes[i].body[1] \in Range(board.food)

(***************************************************************************)
(* C8: on a Playing board the move step of execute fails fatally if and    *)
(* only if the agent named in the call has an empty body or is already     *)
(* eliminated, whatever the state of the other agents.                     *)
(***************************************************************************)
C8_MoveFailsOnlyForNamedAgent ==
    calls > 0 /\ GetEndstate(pre).tag = "Playing" =>
        ((result.kind = "panic" /\ result.stage = "move")
            <=> (/\ Named # 0
                 /\ \/ Len(pre.snakes[Named].body) = 0
                    \/ IsEliminated(pre.snakes[Named])))

(***************************************************************************)
(* C9: execute on a Playing board with an agent id that matches no agent   *)
(* of the board ends in a fatal failure; the board is not advanced.        *)
(***************************************************************************)
C9_UnknownIdFails ==
    calls > 0 /\ GetEndstate(pre).tag = "Playing" /\ Named = 0 =>
        result.kind = "panic" /\ board = pre

Perms(k) == {p \in [1..k -> 1..k] : \A i, j \in 1..k : p[i] = p[j] => i = j}

\* the calls of a round in the order p, the last one resolving it
RoundCalls(moves, p) ==
    [j \in 1..Len(moves) |->
        [id |-> moves[p[j]].id, dir |-> moves[p[j]].dir, last |-> j = Len(moves)]]

RECURSIVE PlayRound(_, _, _)
PlayRound(b, cs, j) ==
    LET r == Execute(b, cs[j].id, cs[j].dir, cs[j].last, TRUE)
    IN  IF r.kind = "panic" THEN [kind |-> "panic", board |-> <<>>, end |-> Playing]
        ELSE IF j = Len(cs) THEN [kind |-> "returned", board |-> r.board, end |-> r.end]
        ELSE PlayRound(r.board, cs, j + 1)

\* the calls since the round started name each living agent of its first
\* board once, and the last of them has resolved the round
ProperRound ==
    /\ RoundOver
    /\ result.kind = "returned"
    /\ GetEndstate(rstart).tag = "Playing"
    /\ Len(rmoves) = Cardinality(Living(rstart))
    /\ {rmoves[j].id : j \in 1..Len(rmoves)} = {rstart.snakes[i].id : i \in Living(rstart)}

\* snake s passes the checks of eliminate_snakes, and still does once its
\* head has gone to the cell t
PassesChecks(s, t) ==
    /\ s.health # 0
    /\ InGrid(s.body[1]) /\ InGrid(s.head)
    /\ \A k \in 2..Len(s.body) : s.body[k] # s.head
    /\ InGrid(t)
    /\ \A k \in 2..(Len(s.body) - 1) : s.body[k] # t

SafeRound ==
    \A j \in 1..Len(rmoves) :
        \A i \in 1..Len(rstart.snakes) :
            rstart.snakes[i].id = rmoves[j].id =>
                PassesChecks(rstart.snakes[i],
                             Coord(rstart.snakes[i].body[1].x + rmoves[j].dir[2],
                                   rstart.snakes[i].body[1].y + rmoves[j].dir[1]))

SameInAnyOrder ==
    \A p \in Perms(Len(rmoves)) :
        PlayRound(rstart, RoundCalls(rmoves, p), 1)
            = [kind |-> "returned", board |-> board, end |-> result.end]

(***************************************************************************)
(* C10: for a Playing board and one direction for each living agent, the   *)
(* moves applied through execute in any order of the agents, the last call *)
(* alone resolving the round, give the same board and the same EndState.   *)
(* As amended: when every living agent passes the single-agent checks at   *)
(* the start of the round and right after its own move.                    *)
(***************************************************************************)
C10_OrderIndependentWhenChecksPass == ProperRound /\ SafeRound => SameInAnyOrder

\* C10 as it was made: any assignment of directions
C10_OrderIndependent == ProperRound => SameInAnyOrder

\* C10: three agents have moved, all passing their checks, and the
\* resolution has eliminated one of them and fed another
C10_Witness ==
    /\ ProperRound /\ SafeRound
    /\ Len(rmoves) = 3
    /\ \E i \in 1..Len(board.snakes) : IsEliminated(board.snakes[i])
    /\ \E i \in 1..Len(board.snakes) : Len(board.snakes[i].body) > Len(rstart.snakes[i].body)

\* the utility 0.0
Zero == Frac(0, MAX_SCORE)

(***************************************************************************)
(* C11: on a board whose EndState is TIE the scorer returns the finite     *)
(* utility 0 for every agent; the non-finite value of a division by the    *)
(* zero sum of the raw scores is never returned.                           *)
(***************************************************************************)
C11_TieScoresZero ==
    ret.how = "leaf" /\ GetEndstate(ret.board).tag = "TIE" =>
        \A i \in 1..Len(ret.score) : ~ret.score[i].nan /\ ret.score[i] = Zero

\* `a >= b` on f32
Ge(a, b) == ~a.nan /\ ~b.nan /\ a.n * b.d >= b.n * a.d

\* the last return left the loop of a node that is not a leaf
ReturnedFromLoop == ret.how \in {"cutoff", "loop"}

\* child k of the node that returned last is the earliest of its children
\* whose coordinate i is at least that of every other child
EarliestBest(k, i) ==
    /\ \A j \in 1..Len(ret.children) :
          j # k => Ge(ret.children[k].score[i], ret.children[j].score[i])
    /\ \A j \in 1..(k - 1) :
          \E l \in 1..Len(ret.children) :
              l # j /\ ~Ge(ret.children[j].score[i], ret.children[l].score[i])

(***************************************************************************)
(* C12: at every node of the search that is not a leaf, the vector         *)
(* get_score returns is the child vector of an explored direction whose    *)
(* acting-agent coordinate is greater than or equal to that of the child   *)
(* vector of every other direction explored at the node, and the direction *)
(* returned is that direction, the earliest such one in the order of       *)
(* DIRECTIONS; also when children are TIE leaves.                          *)
(***************************************************************************)
C12_ReturnsBestChild ==
    ReturnedFromLoop =>
        \E k \in 1..Len(ret.children) :
            /\ ret.score = ret.children[k].score
            /\ ret.dir = DIRECTIONS[ret.children[k].dir]
            /\ EarliestBest(k, SnakeMap(ret.current_snake))

\* 4 + 4^2 + ... + 4^10, the nodes below the root of a tree of four
\* directions and MAX_DEPTH levels
MaxExecutes == (Len(DIRECTIONS) ^ (MAX_DEPTH + 1) - Len(DIRECTIONS)) \div (Len(DIRECTIONS) - 1)

\* get_best_move has returned, or a panic has aborted it
Finished == phase \in {"done", "panic"}

DepthIsBounded ==
    /\ Len(stack) <= MAX_DEPTH + 1
    /\ \A k \in 1..Len(stack) : stack[k].depth = k - 1
    /\ \A k \in 1..Len(stack) :
          stack[k].pc = "loop" =>
              /\ stack[k].depth < MAX_DEPTH
              /\ GetEndstate(stack[k].entry).tag = "Playing"
    /\ ReturnedFromLoop =>
          ret.depth < MAX_DEPTH /\ GetEndstate(ret.board).tag = "Playing"

LeafReturnsScorer ==
    ret.how = "leaf" =>
        /\ ret.depth = MAX_DEPTH \/ GetEndstate(ret.board).tag # "Playing"
        /\ ret.children = <<>>
        /\ ret.score = GenerateScoreArray(ret.board)
        /\ ret.dir = DIRECTIONS[1]

\* the most steps an activation at depth d takes from its entry to its
\* return: one for a leaf, else four directions and the return
RECURSIVE StepsFrom(_)
StepsFrom(d) ==
    IF d >= MAX_DEPTH THEN 1
    ELSE Len(DIRECTIONS) * (1 + StepsFrom(d + 1)) + 1

\* the steps activation k of the stack may still take: all of them before
\* its entry check, else the directions its loop has not yet gone into
StepsLeft(k) ==
    LET f == stack[k]
        waiting == IF k < Len(stack) THEN 1 ELSE 0
    IN  IF f.pc = "entry" THEN StepsFrom(f.depth)
        ELSE (Len(DIRECTIONS) + 1 - f.dir - waiting) * (1 + StepsFrom(f.depth + 1)) + 1

RECURSIVE SumStepsLeft(_)
SumStepsLeft(k) == IF k = 0 THEN 0 ELSE StepsLeft(k) + SumStepsLeft(k - 1)

\* the innermost activation is at one of the four places get_score goes on
\* from: the return of a leaf, the next direction, the break of the cutoff,
\* the return after the loop
SomeStepIsPossible ==
    \/ phase = "idle"
    \/ /\ phase = "running"
       /\ stack # <<>>
       /\ LET f == stack[Len(stack)]
              b == NodeBoard(Len(stack))
          IN  \/ f.pc = "entry" /\ AtLeaf(f, b)
              \/ /\ f.dir <= Len(DIRECTIONS) /\ ~CutsOff(f)
                 /\ f.pc = "entry" => ~AtLeaf(f, b)
              \/ f.pc = "loop" /\ f.dir <= Len(DIRECTIONS) /\ CutsOff(f)
              \/ f.dir > Len(DIRECTIONS)

\* a bound on the steps the search has left
Rank ==
    IF Finished THEN 0
    ELSE IF phase = "idle" THEN StepsFrom(0) + 1
    ELSE SumStepsLeft(Len(stack))

(***************************************************************************)
(* C13: get_score never recurses past depth 10 and never goes through the  *)
(* directions of a node whose board is not Playing: there it returns the   *)
(* scorer's vector, with no execute call and no recursion.  get_best_move  *)
(* makes at most 4 + 4^2 + ... + 4^10 execute calls, and the search        *)
(* eventually finishes (it returns, or a fatal failure aborts it): until   *)
(* then a step is always possible, and every step lowers a bound on the    *)
(* steps that are left.                                                    *)
(***************************************************************************)
C13_SearchIsBounded ==
    /\ [](DepthIsBounded /\ LeafReturnsScorer /\ executes <= MaxExecutes)
    /\ [](Rank >= 0 /\ (~Finished => SomeStepIsPossible))
    /\ [][Rank' < Rank]_vars

\* C13: an activation at depth 10 has just returned from a board that is
\* still Playing
C13_Witness ==
    /\ phase = "running"
    /\ Len(stack) = MAX_DEPTH
    /\ ret.how = "leaf" /\ ret.depth = MAX_DEPTH
    /\ GetEndstate(ret.board).tag = "Playing"
    /\ executes >= MAX_DEPTH

\* activation k of the stack has called execute_action for the direction it
\* is at, and the call resolved a round
ResolvesRound(k) == k < Len(stack) /\ IsLastSnake(stack[k].current_snake)

\* the activation whose call opened the round the call of activation k is in
RoundStart(k) ==
    LET earlier == {j \in 1..(k - 1) : ResolvesRound(j)}
    IN  IF earlier = {} THEN 1
        ELSE 1 + CHOOSE j \in earlier : \A l \in earlier : l <= j

(***************************************************************************)
(* C14: along every path get_best_move explores, for any agent of the root *)
(* board, each end-of-round resolution (an execute call with last_snake    *)
(* true) comes only after every living agent has moved exactly once since  *)
(* the resolution before it, or since the root for the first one.          *)
(***************************************************************************)
C14_RoundsAreComplete ==
    \A k \in 1..Len(stack) :
        ResolvesRound(k) =>
            LET first == RoundStart(k)
                start == stack[first].entry
            IN  /\ k - first + 1 = Cardinality(Living(start))
                /\ {stack[j].current_snake : j \in first..k}
                      = {start.snakes[i].id : i \in Living(start)}

\* index of the target agent on board b
TargetIndex(b) == CHOOSE i \in 1..Len(b.snakes) : b.snakes[i].id = target

\* direction dir sends the target agent off the board b, or onto its neck
\* when its body has three or more segments
ImmediatelyFatal(b, dir) ==
    LET s == b.snakes[TargetIndex(b)]
        t == Coord(s.body[1].x + dir[2], s.body[1].y + dir[1])
    IN  \/ ~InGrid(t)
        \/ Len(s.body) >= 3 /\ t = s.body[2]

\* from board b at depth `depth`, with current_snake to move, the target
\* agent can stay alive down to the search horizon whatever the others play
RECURSIVE SurvivesFrom(_, _, _)
SurvivesFrom(depth, b, current_snake) ==
    IF IsEliminated(b.snakes[TargetIndex(b)]) THEN FALSE
    ELSE IF depth = MAX_DEPTH \/ IsTerminal(b) THEN TRUE
    ELSE LET after(k) == Execute(b, current_snake, DIRECTIONS[k],
                                 IsLastSnake(current_snake), TRUE)
             survives(k) == /\ after(k).kind = "returned"
                            /\ SurvivesFrom(depth + 1, after(k).board,
                                            GetNextSnake(current_snake))
         IN  IF current_snake = target
             THEN \E k \in 1..Len(DIRECTIONS) : survives(k)
             ELSE \A k \in 1..Len(DIRECTIONS) : survives(k)

\* the target agent survives to the horizon when it first goes in dir
SafeDirection(dir) ==
    LET r == Execute(root0, target, dir, IsLastSnake(target), TRUE)
    IN  r.kind = "returned" /\ SurvivesFrom(1, r.board, GetNextSnake(target))

(***************************************************************************)
(* C15: on a Playing root board get_best_move(agent) never returns a       *)
(* direction that eliminates the agent at once (onto its neck with a body  *)
(* of three or more segments, or off the board) when another direction     *)
(* exists along which the agent is not eliminated within the search        *)
(* horizon whatever the other agents play.                                 *)
(***************************************************************************)
C15_AvoidsImmediateDeath ==
    /\ phase = "done"
    /\ target \in Ids(root0)
    /\ GetEndstate(root0).tag = "Playing"
    /\ ImmediatelyFatal(root0, answer.dir)
    => ~\E k \in 1..Len(DIRECTIONS) :
            DIRECTIONS[k] # answer.dir /\ SafeDirection(DIRECTIONS[k])

\* when collisions were resolved, the head of snake i lay on a segment of
\* index >= 1 of snake j, another agent that was living then
RanIntoLiving(i, j) ==
    /\ i # j
    /\ j \in Living(atCollide)
    /\ BodyCollision(atCollide.snakes[i], atCollide.snakes[j])

\* the head of snake i lay on no head and on no body of another agent that
\* was living when collisions were resolved
ClearOfLiving(i) ==
    \A j \in Living(atCollide) \ {i} :
        /\ ~BodyCollision(atCollide.snakes[i], atCollide.snakes[j])
        /\ ~Intersect(atCollide.snakes[i].head, atCollide.snakes[j].head)

(***************************************************************************)
(* C16: after an end-of-round execute every agent whose head lies on a     *)
(* body segment of index >= 1 of a different agent, living when collisions *)
(* were resolved, is eliminated; all agents are judged on the same board,  *)
(* the one before any collision was applied, so two agents each running    *)
(* into the other's body are both eliminated; a head that rests on the     *)
(* body of an agent eliminated before, and on nothing of a living agent,   *)
(* does not eliminate.                                                     *)
(***************************************************************************)
C16_BodyCollisionRule ==
    Resolved =>
        \A i \in 1..Len(board.snakes) :
            /\ (\E j \in 1..Len(board.snakes) : RanIntoLiving(i, j))
                  => IsEliminated(board.snakes[i])
            /\ i \in Living(atCollide) /\ ClearOfLiving(i)
                  => ~IsEliminated(board.snakes[i])

\* C16: two living agents had each its head on the other's body, and both
\* are eliminated
C16_Witness ==
    /\ Resolved
    /\ \E i, j \in Living(atCollide) :
          /\ RanIntoLiving(i, j) /\ RanIntoLiving(j, i)
          /\ IsEliminated(board.snakes[i]) /\ IsEliminated(board.snakes[j])

\* get_score with the cutoff of lines 154-161 taken out: the same depth
\* bound, turn order, clone and execute_action, the same comparison of
\* line 184, all four directions gone through at every node
RECURSIVE PlainScore(_, _, _)
RECURSIVE PlainLoop(_, _, _, _, _, _)
PlainScore(depth, b, current_snake) ==
    IF depth = MAX_DEPTH \/ IsTerminal(b)
    THEN [score |-> GenerateScoreArray(b), dir |-> DIRECTIONS[1]]
    ELSE PlainLoop(depth, b, current_snake, 1, <<>>, DIRECTIONS[1])

PlainLoop(depth, b, current_snake, k, max_score, best_dir) ==
    IF k > Len(DIRECTIONS) THEN [score |-> max_score, dir |-> best_dir]
    ELSE LET i == SnakeMap(current_snake)
             board_copy == Execute(Clone(b), current_snake, DIRECTIONS[k],
                                   IsLastSnake(current_snake), TRUE).board
             absorbed(new_score) ==
                 IF Len(max_score) = 0 \/ Gt(new_score[i], max_score[i])
                 THEN PlainLoop(depth, b, current_snake, k + 1, new_score, DIRECTIONS[k])
                 ELSE PlainLoop(depth, b, current_snake, k + 1, max_score, best_dir)
         IN  CHOOSE r \in {absorbed(new_score) :
                             new_score \in {PlainScore(depth + 1, board_copy,
                                                       GetNextSnake(current_snake)).score}} :
                  TRUE

(***************************************************************************)
(* C17: alpha cutoffs never change the answer: for every Playing root      *)
(* board of two agents and every target agent, the direction get_best_move *)
(* returns is the direction the same round-robin maximizing search of      *)
(* depth 10 returns with the cutoff disabled.                              *)
(***************************************************************************)
C17_CutoffKeepsAnswer ==
    /\ phase = "done"
    /\ Len(root0.snakes) = 2
    /\ GetEndstate(root0).tag = "Playing"
    /\ target \in Ids(root0)
    => answer.dir = PlainScore(0, root0, target).dir

\* the board as move_snake and the checks after it left it in the last
\* call: the returned board of a sub-step, the board feeding found in a
\* call that resolved the round
AfterMove == IF call.last THEN atFeed ELSE board

(***************************************************************************)
(* C18: moving a living agent with body [b0, b1, ..., b(n-1)], n >= 1, in  *)
(* direction d gives the body [b0 + d, b0, b1, ..., b(n-2)]: the length is *)
(* unchanged, the old tail cell is dropped, every other segment shifts one *)
(* place toward the tail, the head field is the new body[0], and no other  *)
(* agent's body changes.                                                   *)
(***************************************************************************)
C18_MoveShiftsBody ==
    Completed /\ Named # 0 =>
        LET old == pre.snakes[Named].body
            new == AfterMove.snakes[Named]
        IN  /\ new.body = <<Target>> \o SubSeq(old, 1, Len(old) - 1)
            /\ Len(new.body) = Len(old)
            /\ new.head = new.body[1]
            /\ \A k \in 2..Len(old) : new.body[k] = old[k - 1]
            /\ \A i \in 1..Len(pre.snakes) :
                  i # Named => /\ AfterMove.snakes[i].body = pre.snakes[i].body
                               /\ AfterMove.snakes[i].head = pre.snakes[i].head

\* C18: an agent of one segment has moved into a cell of the grid
C18_Witness ==
    /\ Completed /\ Named # 0
    /\ Len(pre.snakes[Named].body) = 1
    /\ InGrid(Target)
    /\ AfterMove.snakes[Named].body = <<Target>>
    /\ ~IsEliminated(AfterMove.snakes[Named])

(***************************************************************************)
(* C19: in an end-of-round execute, health decay takes exactly 1 from the  *)
(* health of every agent that is living at that point and leaves the       *)
(* health of every eliminated agent as it was, also of one eliminated      *)
(* earlier in the same call, so no health drops below 0; in a sub-step     *)
(* that is not the last of its round no health changes.                    *)
(***************************************************************************)
C19_DecayOnlyLiving ==
    Completed =>
        \A i \in 1..Len(pre.snakes) :
            IF call.last
            THEN /\ ~IsEliminated(atFeed.snakes[i])
                      => atFeed.snakes[i].health = pre.snakes[i].health - 1
                 /\ IsEliminated(atFeed.snakes[i])
                      => atFeed.snakes[i].health = pre.snakes[i].health
                 /\ atFeed.snakes[i].health >= 0
                 /\ atFeed.snakes[i].health <= SNAKE_MAX_HEALTH
            ELSE board.snakes[i].health = pre.snakes[i].health

(***************************************************************************)
(* C20: the EndState an execute call returns is get_endstate() of the      *)
(* board right after the call.  As amended: when the call is the last of   *)
(* its round or starts on a board that is not Playing; a sub-step that is  *)
(* not the last of its round and starts on a Playing board returns         *)
(* Playing, whatever its single-agent checks have left living.             *)
(***************************************************************************)
C20_ReturnedEndstate ==
    calls > 0 /\ result.kind = "returned" =>
        IF call.last \/ GetEndstate(pre).tag # "Playing"
        THEN result.end = GetEndstate(board)
        ELSE result.end = Playing

\* C20 as it was made: for both values of last_snake
C20_ReturnedEndstateAlways ==
    calls > 0 /\ result.kind = "returned" => result.end = GetEndstate(board)

\* C20: a sub-step that is not the last of its round has left fewer than
\* two agents living and returned Playing
C20_Witness ==
    /\ Completed /\ ~call.last
    /\ Cardinality(Living(board)) < 2
    /\ GetEndstate(board).tag # "Playing"
    /\ result.end = Playing

\* the utility 200000.0, the alpha of every agent at the root
One == Frac(MAX_SCORE, MAX_SCORE)

\* no utility of the vector v exceeds 200000
WithinMaxScore(v) == \A i \in 1..Len(v) : ~Gt(v[i], One)

(***************************************************************************)
(* C21: at the root node of get_best_move on a Playing board the cutoff    *)
(* never fires: the root alpha of every agent is 200000 and no utility     *)
(* exceeds 200000, so all four directions are explored at the root, in the *)
(* order of DIRECTIONS, before a direction is returned; the default        *)
(* direction, never assigned in the loop, is returned only when the root   *)
(* itself is terminal.                                                     *)
(***************************************************************************)
C21_RootNeverCutsOff ==
    /\ \A k \in 1..Len(stack) : WithinMaxScore(stack[k].max_score)
    /\ WithinMaxScore(ret.score)
    /\ stack # <<>> =>
          /\ \A i \in 1..Len(stack[1].alphas) : stack[1].alphas[i] = One
          /\ ~CutsOff(stack[1])
    /\ phase = "done" =>
          IF GetEndstate(root0).tag = "Playing"
          THEN /\ ret.how = "loop" /\ ret.depth = 0
               /\ [k \in 1..Len(ret.children) |-> ret.children[k].dir]
                     = [k \in 1..Len(DIRECTIONS) |-> k]
               /\ \E k \in 1..Len(ret.children) :
                     answer.dir = DIRECTIONS[ret.children[k].dir]
          ELSE /\ ret.how = "leaf" /\ ret.depth = 0
               /\ ret.children = <<>>
               /\ executes = 0
               /\ answer.dir = DIRECTIONS[1]

\* C21: a search from a Playing root has returned after its four
\* directions, one of which gave the acting agent the utility 200000, the
\* value of its alpha
C21_Witness ==
    /\ phase = "done"
    /\ GetEndstate(root0).tag = "Playing"
    /\ Len(ret.children) = Len(DIRECTIONS)
    /\ \E k \in 1..Len(ret.children) :
          ret.children[k].score[SnakeMap(target)] = One

\* every agent of the board b is living and has a body
AllLiving(b) ==
    \A i \in 1..Len(b.snakes) :
        ~IsEliminated(b.snakes[i]) /\ Len(b.snakes[i].body) > 0

\* the search was aborted by the move step of the execute call of the
\* innermost node: move_snake met an eliminated agent or an empty body
MoveStepFailed ==
    /\ phase = "panic"
    /\ SnakeMap(stack[Len(stack)].current_snake) # 0
    /\ ~MoveSnake(NodeBoard(Len(stack)), stack[Len(stack)].current_snake,
                  DIRECTIONS[stack[Len(stack)].dir]).ok

(***************************************************************************)
(* C22: for every root board with two or more agents, all of them living   *)
(* with non-empty bodies, no execute call issued during get_best_move for  *)
(* an agent of the board fails in its move step because some agent on the  *)
(* board is eliminated or has an empty body.                               *)
(***************************************************************************)
C22_NoFatalMoveStep ==
    (/\ Len(root0.snakes) >= 2
     /\ AllLiving(root0)
     /\ target \in Ids(root0))
        => ~MoveStepFailed

====
